---- MODULE Spec2Model ----
(***************************************************************************)
(* CookShare (app/main.py): the request handlers of the recipe-sharing     *)
(* application over its SQLite store, as a state machine.                  *)
(*                                                                         *)
(* The store is the record db (one field per table).  A request is served  *)
(* in one or more steps; a step ends at a commit of the handler's Session  *)
(* (or at its response), so what another request can observe between two   *)
(* steps is exactly what the handler has committed so far.  Reads made     *)
(* before a handler's first write are not protected by any lock: they are  *)
(* a step of their own wherever the handler acts on what it read.          *)
(***************************************************************************)
EXTENDS Integers, Sequences, FiniteSets, Bags, TLC

VARIABLES
    db,          \* the tables of app.db
    session,     \* per browser: the signed session cookie (user_id, csrf_token)
    inflight,    \* per worker slot: the request being served, or Idle
    last,        \* the request that took the last step, with its outcome
    budget,      \* requests the environment may still send
    view_base,   \* per recipe id: its view_count when it was first seen
    views_done,  \* per recipe id: detail requests answered 200 so far
    deleted      \* recipe ids removed by a committed recipe_delete

vars == <<db, session, inflight, last, budget, view_base, views_done, deleted>>

(***************************************************************************)
(* Bounds of the model.                                                    *)
(***************************************************************************)
MaxReq == 2        \* requests received in one behaviour of Spec
MaxViewReq == 3    \* requests received in one behaviour of SpecViews
MaxInflight == 2   \* requests served at the same time

(***************************************************************************)
(* Python values.  A str is a sequence of one-character strings; None in   *)
(* a place that holds a str is NoneStr; None (or a missing value) in a     *)
(* place that holds an int is 0, which Python's "not x" treats alike.      *)
(***************************************************************************)
NoneStr == <<"NONE">>
NoId == 0

RECURSIVE lstrip(_)
lstrip(s) ==
    IF s = <<>> THEN s
    ELSE IF Head(s) = " " THEN lstrip(Tail(s)) ELSE s

RECURSIVE rstrip(_)
rstrip(s) ==
    IF s = <<>> THEN s
    ELSE IF s[Len(s)] = " " THEN rstrip(SubSeq(s, 1, Len(s) - 1)) ELSE s

strip(s) == rstrip(lstrip(s))

\* raw.split(","): the pieces between the commas, in order
RECURSIVE split(_)
split(s) ==
    LET commas == {i \in 1..Len(s) : s[i] = ","}
    IN  IF commas = {} THEN <<s>>
        ELSE LET i == CHOOSE k \in commas : \A j \in commas : k <= j
             IN  <<SubSeq(s, 1, i - 1)>> \o split(SubSeq(s, i + 1, Len(s)))

\* (v or None): an empty or missing str becomes None
or_none(v) == IF v = <<>> \/ v = NoneStr THEN NoneStr ELSE v

\* (arr[idx] if idx < len(arr) else None), idx counted from 0
at_or_none(arr, idx) == IF idx < Len(arr) THEN arr[idx + 1] ELSE NoneStr

\* (v.strip() if v else None)
strip_or_none(v) == IF v = NoneStr \/ v = <<>> THEN NoneStr ELSE strip(v)

Max(S) == CHOOSE m \in S : \A x \in S : x <= m

(***************************************************************************)
(* The tables (SQLModel classes).                                          *)
(***************************************************************************)
\* pwd_context.hash / pwd_context.verify
pwd_hash(password) == <<"bcrypt", password>>
pwd_verify(password, hash) == hash = <<"bcrypt", password>>

User(id, email, password_hash) ==
    [id |-> id, email |-> email, password_hash |-> password_hash]

Recipe(id, title, description, main_image, author_id, view_count) ==
    [id |-> id, title |-> title, description |-> description,
     main_image |-> main_image, author_id |-> author_id,
     view_count |-> view_count]

Ingredient(id, recipe_id, name, amount, unit, order_no) ==
    [id |-> id, recipe_id |-> recipe_id, name |-> name, amount |-> amount,
     unit |-> unit, order_no |-> order_no]

Step(id, recipe_id, body, order_no, image_path) ==
    [id |-> id, recipe_id |-> recipe_id, body |-> body, order_no |-> order_no,
     image_path |-> image_path]

Tag(id, name) == [id |-> id, name |-> name]

RecipeTag(recipe_id, tag_id) == [recipe_id |-> recipe_id, tag_id |-> tag_id]

Favorite(user_id, recipe_id) == [user_id |-> user_id, recipe_id |-> recipe_id]

\* the row a query returns when there is none (session.get(...) is None)
NoRecipe == Recipe(NoId, "", "", NoneStr, NoId, 0)

\* INTEGER PRIMARY KEY without AUTOINCREMENT: the largest id in the table + 1
NextId(rows) == IF rows = {} THEN 1 ELSE Max({r.id : r \in rows}) + 1

\* s.add(Ingredient(...)) for each entry of cs, flushed in order
RECURSIVE InsertIngredients(_, _)
InsertIngredients(rows, cs) ==
    IF cs = <<>> THEN rows
    ELSE LET c == Head(cs)
         IN  InsertIngredients(
                 rows \cup {Ingredient(NextId(rows), c.recipe_id, c.name,
                                       c.amount, c.unit, c.order_no)},
                 Tail(cs))

\* s.add(Step(...)) for each entry of cs, flushed in order
RECURSIVE InsertSteps(_, _)
InsertSteps(rows, cs) ==
    IF cs = <<>> THEN rows
    ELSE LET c == Head(cs)
         IN  InsertSteps(
                 rows \cup {Step(NextId(rows), c.recipe_id, c.body,
                                 c.order_no, c.image_path)},
                 Tail(cs))

\* select(...).order_by(order_no): the rows by order_no, ties by rowid
RECURSIVE OrderByOrderNo(_)
OrderByOrderNo(rows) ==
    IF rows = {} THEN <<>>
    ELSE LET r == CHOOSE x \in rows : \A y \in rows :
                      \/ x.order_no < y.order_no
                      \/ (x.order_no = y.order_no /\ x.id <= y.id)
         IN  <<r>> \o OrderByOrderNo(rows \ {r})

\* session.get(Recipe, rid)
GetRecipe(d, rid) ==
    IF \E r \in d.recipe : r.id = rid
    THEN CHOOSE r \in d.recipe : r.id = rid
    ELSE NoRecipe

\* s.get(User, uid)
GetUser(d, uid) ==
    IF \E u \in d.user : u.id = uid
    THEN (CHOOSE u \in d.user : u.id = uid).id
    ELSE NoId

(***************************************************************************)
(* Uploads.  An UploadFile is "none" (no part, or an empty filename),      *)
(* "image" (bytes Pillow decodes), "junk" (bytes it does not) or "ioerr"   *)
(* (reading the part or writing app/media raises OSError).                 *)
(***************************************************************************)
Uploads == {"none", "image", "junk", "ioerr"}

\* uuid.uuid4().hex
Hexes == {"h1"}

\* save_step_image: the stored path; the decode error of "junk" is swallowed
save_step_image(upload, hex) ==
    IF upload = "none" THEN NoneStr ELSE <<"/media/", hex, ".webp">>

\* upload.file.read() and out.write_bytes(data) are outside the try block
upload_raises(upload) == upload = "ioerr"

\* the main image of recipe_create / recipe_update
main_image_path(upload, hex) ==
    IF upload = "none" THEN NoneStr ELSE <<"/media/", hex, ".webp", "+">>

(***************************************************************************)
(* The rows a create or edit request builds from its form.                 *)
(***************************************************************************)
RECURSIVE ingredient_rows(_, _, _, _, _)
ingredient_rows(names, amounts, units, rid, idx) ==
    IF idx >= Len(names) THEN <<>>
    ELSE LET name == strip(names[idx + 1])
             amount == or_none(at_or_none(amounts, idx))
             unit == or_none(at_or_none(units, idx))
             rest == ingredient_rows(names, amounts, units, rid, idx + 1)
         IN  IF name = <<>> THEN rest
             ELSE <<[recipe_id |-> rid, name |-> name,
                     amount |-> strip_or_none(amount),
                     unit |-> strip_or_none(unit),
                     order_no |-> idx]>> \o rest

create_ingredients(form, rid) ==
    ingredient_rows(form.names, form.amounts, form.units, rid, 0)

\* the edit template sends no unit: unit=None
update_ingredients(form, rid) ==
    ingredient_rows(form.names, form.amounts, <<>>, rid, 0)

MaxOf(a, b) == IF a >= b THEN a ELSE b

RECURSIVE create_steps_from(_, _, _, _, _)
create_steps_from(bodies, imgs, rid, hex, idx) ==
    IF idx >= MaxOf(Len(bodies), Len(imgs)) THEN <<>>
    ELSE LET body == IF idx < Len(bodies) THEN strip(bodies[idx + 1]) ELSE <<>>
             img_path == IF idx < Len(imgs)
                         THEN save_step_image(imgs[idx + 1], hex)
                         ELSE NoneStr
             rest == create_steps_from(bodies, imgs, rid, hex, idx + 1)
         IN  IF body = <<>> /\ img_path = NoneStr THEN rest
             ELSE <<[recipe_id |-> rid, body |-> body, order_no |-> idx,
                     image_path |-> img_path]>> \o rest

create_steps(form, rid, hex) ==
    create_steps_from(form.bodies, form.simgs, rid, hex, 0)

RECURSIVE update_steps_from(_, _, _, _, _, _)
update_steps_from(bodies, olds, imgs, rid, hex, idx) ==
    IF idx >= MaxOf(Len(bodies), MaxOf(Len(olds), Len(imgs))) THEN <<>>
    ELSE LET body == IF idx < Len(bodies) THEN strip(bodies[idx + 1]) ELSE <<>>
             keep == or_none(at_or_none(olds, idx))
             saved == IF idx < Len(imgs)
                      THEN save_step_image(imgs[idx + 1], hex)
                      ELSE NoneStr
             img_path == IF saved = NoneStr THEN keep ELSE saved
             rest == update_steps_from(bodies, olds, imgs, rid, hex, idx + 1)
         IN  IF body = <<>> /\ img_path = NoneStr THEN rest
             ELSE <<[recipe_id |-> rid, body |-> body, order_no |-> idx,
                     image_path |-> img_path]>> \o rest

update_steps(form, rid, hex) ==
    update_steps_from(form.bodies, form.olds, form.simgs, rid, hex, 0)

\* a step upload whose read or write raises aborts the handler
steps_raise(form) == \E i \in 1..Len(form.simgs) : upload_raises(form.simgs[i])

\* s.exec(select(Tag).where(Tag.name == tname)).first()
find_tag(tags, tname) ==
    IF \E t \in tags : t.name = tname
    THEN CHOOSE i \in {t.id : t \in tags} :
            /\ \E t \in tags : t.id = i /\ t.name = tname
            /\ \A t \in tags : t.name = tname => i <= t.id
    ELSE NoId

\* the tags of the recipe replaced by the one added
add_recipetag_replacing(rts, rid, tag_id) ==
    {x \in rts : x.recipe_id # rid} \cup {RecipeTag(rid, tag_id)}

\* if not exists: s.add(RecipeTag(recipe_id=rid, tag_id=t.id))
add_recipetag(rts, rid, tag_id) ==
    IF RecipeTag(rid, tag_id) \in rts THEN rts
    ELSE rts \cup {RecipeTag(rid, tag_id)}

\* The tag loop from entry i of names (counted from 1) up to the next tag
\* that has no row yet: there the handler commits (s.add(t); s.commit()).
\* i = 0 in the result: the loop ran to its end.
RECURSIVE tag_loop(_, _, _, _, _)
tag_loop(tags, rts, rid, names, i) ==
    IF i > Len(names) THEN [i |-> 0, name |-> <<>>, rts |-> rts]
    ELSE LET tname == strip(names[i])
         IN  IF tname = <<>> THEN tag_loop(tags, rts, rid, names, i + 1)
             ELSE IF find_tag(tags, tname) = NoId
                  THEN [i |-> i, name |-> tname, rts |-> rts]
                  ELSE tag_loop(tags,
                                add_recipetag(rts, rid, find_tag(tags, tname)),
                                rid, names, i + 1)

(***************************************************************************)
(* Session and guards.                                                     *)
(***************************************************************************)
NoSession == [user_id |-> NoId, csrf_token |-> 0]

\* secrets.token_urlsafe(16)
Tokens == {1, 2}

get_current_user(sess, d) ==
    IF sess.user_id = NoId THEN NoId ELSE GetUser(d, sess.user_id)

\* _ensure_csrf: a token is generated only when the session holds none
ensure_csrf(sess, fresh) ==
    IF sess.csrf_token = 0 THEN [sess EXCEPT !.csrf_token = fresh] ELSE sess

\* the check left out
verify_csrf_skipped(sess, token) == TRUE

\* TRUE when verify_csrf returns, FALSE when it raises HTTPException(400)
verify_csrf(sess, token) ==
    ~(sess.csrf_token = 0 \/ token = 0 \/ sess.csrf_token # token)

\* a recipe without an author taken for anyone's
not_owner_unless_null(r, uid) == r.author_id # NoId /\ r.author_id # uid

\* r.author_id != user.id
not_owner(r, uid) == r.author_id # uid

(***************************************************************************)
(* Requests.                                                               *)
(***************************************************************************)
Browsers == {1, 2}
Emails == {"a@x", "b@x"}
Passwords == {"pa", "pb"}

NoForm ==
    [title |-> "", description |-> "", image |-> "none",
     names |-> <<>>, amounts |-> <<>>, units |-> <<>>,
     bodies |-> <<>>, simgs |-> <<>>, olds |-> <<>>, tags_csv |-> <<>>]

NoView == [ings |-> <<>>, steps |-> <<>>, tags |-> {}, view_count |-> 0]

\* A request as it arrives: its route and inputs, and the session cookie it
\* carries (suid, stok).  uid, r, pc, ti and tag_id are the handler's locals.
Req(route, b, token, rid, form, hex) ==
    [route |-> route, b |-> b, token |-> token, rid |-> rid, form |-> form,
     hex |-> hex,
     suid |-> IF b \in Browsers THEN session[b].user_id ELSE NoId,
     stok |-> IF b \in Browsers THEN session[b].csrf_token ELSE 0,
     uid |-> NoId, r |-> NoRecipe, pc |-> "arrive", ti |-> 0, tag_id |-> NoId,
     status |-> "pending", view |-> NoView]

Idle == [Req("idle", 0, 0, NoId, NoForm, "") EXCEPT !.pc = "idle"]

Slots == 1..MaxInflight

HasFreeSlot == \E i \in Slots : inflight[i].route = "idle"
FreeSlot == CHOOSE i \in Slots :
                /\ inflight[i].route = "idle"
                /\ \A j \in Slots : inflight[j].route = "idle" => i <= j

\* the request is received
Arrive == budget > 0 /\ budget' = budget - 1

\* the step ends with the response `status`
Answer(q, status, view) == last' = [q EXCEPT !.status = status, !.view = view]

\* the step ends with the handler still running, in slot i
Continue(i, q) == /\ inflight' = [inflight EXCEPT ![i] = q]
                  /\ last' = q

\* the handler in slot i ends
Finish(i) == inflight' = [inflight EXCEPT ![i] = Idle]

\* what recipe_detail.html is rendered from
View(d, rid, r) ==
    [ings |-> OrderByOrderNo({x \in d.ingredient : x.recipe_id = rid}),
     steps |-> OrderByOrderNo({x \in d.step : x.recipe_id = rid}),
     tags |-> {t.name : t \in {t \in d.tag :
                  RecipeTag(rid, t.id) \in d.recipetag}},
     view_count |-> r.view_count]

(***************************************************************************)
(* The state at startup.  on_startup keeps whatever app.db holds, so the   *)
(* application starts either on a fresh install or on the rows of earlier  *)
(* runs; recipe 2 predates the author_id column (_migrate_sqlite adds it   *)
(* as NULL).  Session cookies survive a restart (the secret is fixed).     *)
(***************************************************************************)
EmptyDb ==
    [user |-> {}, recipe |-> {}, recipe_seq |-> 0, ingredient |-> {},
     step |-> {}, tag |-> {}, recipetag |-> {}, favorite |-> EmptyBag]

SeedDb ==
    [user |-> {User(1, "a@x", pwd_hash("pa")), User(2, "b@x", pwd_hash("pb"))},
     recipe |-> {Recipe(1, "T", "D", NoneStr, 1, 2),
                 Recipe(2, "L", "", NoneStr, NoId, 0)},
     recipe_seq |-> 2,
     ingredient |-> {Ingredient(1, 1, <<"e">>, NoneStr, NoneStr, 0),
                     Ingredient(2, 1, <<"m">>, <<"1">>, NoneStr, 1),
                     Ingredient(3, 2, <<"s">>, NoneStr, NoneStr, 0)},
     step |-> {Step(1, 1, <<"b">>, 0, NoneStr)},
     tag |-> {Tag(1, <<"q">>)},
     recipetag |-> {RecipeTag(1, 1)},
     favorite |-> SetToBag({Favorite(2, 1)})]

Seeds ==
    {[db |-> EmptyDb, session |-> [b \in Browsers |-> NoSession]],
     [db |-> SeedDb,
      session |-> (1 :> [user_id |-> 1, csrf_token |-> 1])
                  @@ (2 :> [user_id |-> 2, csrf_token |-> 2])],
     [db |-> SeedDb,
      session |-> (1 :> [user_id |-> 1, csrf_token |-> 1])
                  @@ (2 :> NoSession)]}

InitWith(requests) ==
    /\ \E seed \in Seeds : db = seed.db /\ session = seed.session
    /\ budget = requests
    /\ inflight = [i \in Slots |-> Idle]
    /\ last = Idle
    /\ view_base = [rid \in {r.id : r \in db.recipe} |->
                       GetRecipe(db, rid).view_count]
    /\ views_done = [rid \in {r.id : r \in db.recipe} |-> 0]
    /\ deleted = {}

Init == InitWith(MaxReq)

(***************************************************************************)
(* Pages (GET).                                                            *)
(***************************************************************************)
\* GET /login (GET /signup, GET / and GET /account do the same to the state)
login_form(b, fresh) ==
    /\ Arrive
    /\ session' = [session EXCEPT ![b] = ensure_csrf(@, fresh)]
    /\ Answer(Req("login_form", b, 0, NoId, NoForm, ""), "200", NoView)
    /\ UNCHANGED <<db, inflight, view_base, views_done, deleted>>

\* GET /recipes/new
recipe_new(b, fresh) ==
    LET q == Req("recipe_new", b, 0, NoId, NoForm, "")
        current_user == get_current_user(session[b], db)
    IN  /\ Arrive
        /\ IF current_user = NoId
           THEN /\ Answer(q, "303_login", NoView)
                /\ UNCHANGED session
           ELSE /\ session' = [session EXCEPT ![b] = ensure_csrf(@, fresh)]
                /\ Answer(q, "200", NoView)
        /\ UNCHANGED <<db, inflight, view_base, views_done, deleted>>

\* _require_login, then _get_recipe_or_404, then the author check:
\* the status _require_owner raises, or "ok"
require_owner(sess, d, rid) ==
    IF get_current_user(sess, d) = NoId THEN "401"
    ELSE IF GetRecipe(d, rid) = NoRecipe THEN "404"
    ELSE IF not_owner(GetRecipe(d, rid), get_current_user(sess, d)) THEN "403"
    ELSE "ok"

\* GET /recipes/{rid}/edit
recipe_edit_form(b, rid, fresh) ==
    LET q == Req("recipe_edit_form", b, 0, rid, NoForm, "")
        owner == require_owner(session[b], db, rid)
    IN  /\ Arrive
        /\ session' = [session EXCEPT ![b] = ensure_csrf(@, fresh)]
        /\ IF owner # "ok"
           THEN Answer(q, owner, NoView)
           ELSE Answer(q, "200", View(db, rid, GetRecipe(db, rid)))
        /\ UNCHANGED <<db, inflight, view_base, views_done, deleted>>

\* GET /favorites
favorites_page(b, fresh) ==
    LET q == Req("favorites_page", b, 0, NoId, NoForm, "")
    IN  /\ Arrive
        /\ session' = [session EXCEPT ![b] = ensure_csrf(@, fresh)]
        /\ IF get_current_user(session[b], db) = NoId
           THEN Answer(q, "401", NoView)
           ELSE Answer(q, "200", NoView)
        /\ UNCHANGED <<db, inflight, view_base, views_done, deleted>>

(***************************************************************************)
(* Signup, login, logout (POST).  csrf_token is Form(...): a request       *)
(* without it is answered 422 by ve_handler before the handler runs.       *)
(***************************************************************************)
signup(b, email, password, token) ==
    LET q == Req("signup", b, token, NoId, NoForm, "")
        id == NextId(db.user)
    IN  /\ Arrive
        /\ UNCHANGED <<inflight, view_base, views_done, deleted>>
        /\ IF token = 0
           THEN Answer(q, "422", NoView) /\ UNCHANGED <<db, session>>
           ELSE IF ~verify_csrf(session[b], token)
           THEN Answer(q, "400", NoView) /\ UNCHANGED <<db, session>>
           ELSE IF \E u \in db.user : u.email = email
           THEN Answer(q, "200", NoView) /\ UNCHANGED <<db, session>>
           ELSE /\ db' = [db EXCEPT !.user =
                            @ \cup {User(id, email, pwd_hash(password))}]
                /\ session' = [session EXCEPT ![b].user_id = id]
                /\ Answer(q, "303", NoView)

login(b, email, password, token) ==
    LET q == Req("login", b, token, NoId, NoForm, "")
        found == {u \in db.user : u.email = email}
    IN  /\ Arrive
        /\ UNCHANGED <<db, inflight, view_base, views_done, deleted>>
        /\ IF token = 0
           THEN Answer(q, "422", NoView) /\ UNCHANGED session
           ELSE IF ~verify_csrf(session[b], token)
           THEN Answer(q, "400", NoView) /\ UNCHANGED session
           ELSE IF \A u \in found : ~pwd_verify(password, u.password_hash)
           THEN Answer(q, "200", NoView) /\ UNCHANGED session
           ELSE /\ session' = [session EXCEPT ![b].user_id =
                       (CHOOSE u \in found : TRUE).id]
                /\ Answer(q, "303", NoView)

logout(b, token) ==
    LET q == Req("logout", b, token, NoId, NoForm, "")
    IN  /\ Arrive
        /\ UNCHANGED <<db, inflight, view_base, views_done, deleted>>
        /\ IF token = 0
           THEN Answer(q, "422", NoView) /\ UNCHANGED session
           ELSE IF ~verify_csrf(session[b], token)
           THEN Answer(q, "400", NoView) /\ UNCHANGED session
           ELSE /\ session' = [session EXCEPT ![b] = NoSession]
                /\ Answer(q, "303", NoView)

(***************************************************************************)
(* POST /recipes (recipe_create).                                          *)
(***************************************************************************)
\* lines 300-336: the guards, the main image, then the Recipe row, committed
recipe_create(b, form, token, hex) ==
    LET q == Req("recipe_create", b, token, NoId, form, hex)
        current_user == get_current_user(session[b], db)
        rid == db.recipe_seq + 1
        r == Recipe(rid, form.title, form.description,
                    main_image_path(form.image, hex), current_user, 0)
    IN  /\ Arrive
        /\ HasFreeSlot
        /\ UNCHANGED <<session, deleted>>
        /\ IF token = 0
           THEN /\ Answer(q, "422", NoView)
                /\ UNCHANGED <<db, inflight, view_base, views_done>>
           ELSE IF current_user = NoId
           THEN /\ Answer(q, "303_login", NoView)
                /\ UNCHANGED <<db, inflight, view_base, views_done>>
           ELSE IF ~verify_csrf(session[b], token)
           THEN /\ Answer(q, "400", NoView)
                /\ UNCHANGED <<db, inflight, view_base, views_done>>
           ELSE IF upload_raises(form.image)
           THEN /\ Answer(q, "500", NoView)
                /\ UNCHANGED <<db, inflight, view_base, views_done>>
           ELSE /\ db' = [db EXCEPT !.recipe = @ \cup {r}, !.recipe_seq = rid]
                /\ view_base' = (rid :> 0) @@ view_base
                /\ views_done' = (rid :> 0) @@ views_done
                /\ Continue(FreeSlot, [q EXCEPT !.uid = current_user,
                                                !.rid = rid, !.r = r,
                                                !.pc = "rows"])

\* lines 339-367: the Ingredient and Step rows of the new recipe
create_rows(d, q) ==
    [d EXCEPT
       !.ingredient = InsertIngredients(@, create_ingredients(q.form, q.rid)),
       !.step = InsertSteps(@, create_steps(q.form, q.rid, q.hex))]

\* The tag loop of a create or edit request q from where it stands, up to
\* its next commit: its result (see tag_loop) over the rows of d.
tags_segment(d, q) ==
    IF q.pc = "rows"
    THEN tag_loop(d.tag, d.recipetag, q.rid, split(q.form.tags_csv), 1)
    ELSE tag_loop(d.tag, add_recipetag(d.recipetag, q.rid, q.tag_id),
                  q.rid, split(q.form.tags_csv), q.ti + 1)

\* s.commit() of the segment: the pending RecipeTag rows and, when the loop
\* stopped at a tag without a row, that Tag
commit_tags(d, tl) ==
    [d EXCEPT !.recipetag = tl.rts,
              !.tag = IF tl.i = 0 THEN @ ELSE @ \cup {Tag(NextId(@), tl.name)}]

\* lines 339-393, from one commit to the next
recipe_create_body(i) ==
    LET q == inflight[i]
        d1 == IF q.pc = "rows" THEN create_rows(db, q) ELSE db
        tl == tags_segment(db, q)
    IN  /\ q.route = "recipe_create"
        /\ q.pc \in {"rows", "tags"}
        /\ UNCHANGED <<session, budget, view_base, views_done, deleted>>
        /\ IF q.pc = "rows" /\ steps_raise(q.form)
           THEN /\ Answer(q, "500", NoView)
                /\ Finish(i)
                /\ UNCHANGED db
           ELSE /\ db' = commit_tags(d1, tl)
                /\ IF tl.i # 0
                   THEN Continue(i, [q EXCEPT !.pc = "tags", !.ti = tl.i,
                                              !.tag_id = NextId(db.tag)])
                   ELSE /\ Finish(i)
                        /\ Answer(q, "200", View(db', q.rid, q.r))

(***************************************************************************)
(* GET /recipes/{rid} (recipe_detail).                                     *)
(***************************************************************************)
\* lines 399-404: r = s.get(Recipe, rid)
recipe_detail(b, rid, fresh) ==
    LET q == Req("recipe_detail", b, 0, rid, NoForm, "")
        r == GetRecipe(db, rid)
    IN  /\ Arrive
        /\ HasFreeSlot
        /\ session' = [session EXCEPT ![b] = ensure_csrf(@, fresh)]
        /\ UNCHANGED <<db, view_base, views_done, deleted>>
        /\ IF r = NoRecipe
           THEN Answer(q, "404", NoView) /\ UNCHANGED inflight
           ELSE Continue(FreeSlot,
                    [q EXCEPT !.uid = get_current_user(session[b], db),
                              !.r = r, !.pc = "commit"])

\* r.view_count = (r.view_count or 0) + 1
bump_view_count(r) == [r EXCEPT !.view_count = r.view_count + 1]

\* lines 405-419: UPDATE recipe SET view_count = <r.view_count> WHERE id = rid
recipe_detail_commit(i) ==
    LET q == inflight[i]
        r == bump_view_count(q.r)
        row == GetRecipe(db, q.rid)
    IN  /\ q.route = "recipe_detail"
        /\ q.pc = "commit"
        /\ Finish(i)
        /\ UNCHANGED <<session, budget, view_base, deleted>>
        /\ IF row = NoRecipe
           THEN \* the UPDATE matches no row: StaleDataError
                /\ Answer(q, "500", NoView)
                /\ UNCHANGED <<db, views_done>>
           ELSE /\ db' = [db EXCEPT !.recipe = (@ \ {row}) \cup
                            {[row EXCEPT !.view_count = r.view_count]}]
                /\ views_done' = [views_done EXCEPT ![q.rid] = @ + 1]
                /\ Answer(q, "200", View(db', q.rid, GetRecipe(db', q.rid)))

(***************************************************************************)
(* POST /recipes/{rid}/edit (recipe_update).                               *)
(***************************************************************************)
\* lines 462-475: the guards and r = s.get(Recipe, rid)
recipe_update(b, rid, form, token, hex) ==
    LET q == Req("recipe_update", b, token, rid, form, hex)
        current_user == get_current_user(session[b], db)
        r == GetRecipe(db, rid)
    IN  /\ Arrive
        /\ HasFreeSlot
        /\ UNCHANGED <<db, session, view_base, views_done, deleted>>
        /\ IF token = 0
           THEN Answer(q, "422", NoView) /\ UNCHANGED inflight
           ELSE IF current_user = NoId
           THEN Answer(q, "303_login", NoView) /\ UNCHANGED inflight
           ELSE IF ~verify_csrf(session[b], token)
           THEN Answer(q, "400", NoView) /\ UNCHANGED inflight
           ELSE IF r = NoRecipe
           THEN Answer(q, "404", NoView) /\ UNCHANGED inflight
           ELSE IF not_owner(r, current_user)
           THEN Answer(q, "403", NoView) /\ UNCHANGED inflight
           ELSE Continue(FreeSlot, [q EXCEPT !.uid = current_user, !.r = r,
                                             !.pc = "title"])

\* lines 478-500: the attributes of r the handler assigns
update_recipe_row(r, form, hex) ==
    [r EXCEPT !.title = form.title,
              !.description = form.description,
              !.main_image = IF form.image = "none" THEN @
                             ELSE main_image_path(form.image, hex)]

\* lines 478-500: UPDATE recipe SET <changed attributes> WHERE id = rid
recipe_update_title(i) ==
    LET q == inflight[i]
        r == update_recipe_row(q.r, q.form, q.hex)
        row == GetRecipe(db, q.rid)
    IN  /\ q.route = "recipe_update"
        /\ q.pc = "title"
        /\ UNCHANGED <<session, budget, view_base, views_done, deleted>>
        /\ IF upload_raises(q.form.image)
           THEN Answer(q, "500", NoView) /\ Finish(i) /\ UNCHANGED db
           ELSE IF r = q.r
           THEN \* nothing changed: no UPDATE is emitted
                Continue(i, [q EXCEPT !.pc = "rows"]) /\ UNCHANGED db
           ELSE IF row = NoRecipe
           THEN \* the UPDATE matches no row: StaleDataError
                Answer(q, "500", NoView) /\ Finish(i) /\ UNCHANGED db
           ELSE /\ db' = [db EXCEPT !.recipe = (@ \ {row}) \cup
                            {[row EXCEPT !.title = r.title,
                                         !.description = r.description,
                                         !.main_image = r.main_image]}]
                /\ Continue(i, [q EXCEPT !.pc = "rows"])

\* the Step rows of the recipe left in place
update_rows_keep_steps(d, q) ==
    [d EXCEPT
       !.ingredient = InsertIngredients({x \in @ : x.recipe_id # q.rid},
                                        update_ingredients(q.form, q.rid)),
       !.step = InsertSteps(@, update_steps(q.form, q.rid, q.hex))]

\* lines 503-536: delete the Ingredient and Step rows of rid, add the new ones
update_rows(d, q) ==
    [d EXCEPT
       !.ingredient = InsertIngredients({x \in @ : x.recipe_id # q.rid},
                                        update_ingredients(q.form, q.rid)),
       !.step = InsertSteps({x \in @ : x.recipe_id # q.rid},
                            update_steps(q.form, q.rid, q.hex))]

\* lines 503-553, from one commit to the next
recipe_update_body(i) ==
    LET q == inflight[i]
        d1 == IF q.pc = "rows" THEN update_rows(db, q) ELSE db
        tl == tags_segment(db, q)
    IN  /\ q.route = "recipe_update"
        /\ q.pc \in {"rows", "tags"}
        /\ UNCHANGED <<session, budget, view_base, views_done, deleted>>
        /\ IF q.pc = "rows" /\ steps_raise(q.form)
           THEN /\ Answer(q, "500", NoView)
                /\ Finish(i)
                /\ UNCHANGED db
           ELSE /\ db' = commit_tags(d1, tl)
                /\ IF tl.i # 0
                   THEN Continue(i, [q EXCEPT !.pc = "tags", !.ti = tl.i,
                                              !.tag_id = NextId(db.tag)])
                   ELSE /\ Finish(i)
                        /\ Answer(q, "303", NoView)

(***************************************************************************)
(* POST /recipes/{rid}/delete (recipe_delete).                             *)
(***************************************************************************)
\* lines 557-559: verify_csrf, then _require_owner
recipe_delete(b, rid, token) ==
    LET q == Req("recipe_delete", b, token, rid, NoForm, "")
        owner == require_owner(session[b], db, rid)
    IN  /\ Arrive
        /\ HasFreeSlot
        /\ UNCHANGED <<db, session, view_base, views_done, deleted>>
        /\ IF token = 0
           THEN Answer(q, "422", NoView) /\ UNCHANGED inflight
           ELSE IF ~verify_csrf(session[b], token)
           THEN Answer(q, "400", NoView) /\ UNCHANGED inflight
           ELSE IF owner # "ok"
           THEN Answer(q, owner, NoView) /\ UNCHANGED inflight
           ELSE Continue(FreeSlot,
                    [q EXCEPT !.uid = get_current_user(session[b], db),
                              !.r = GetRecipe(db, rid), !.pc = "commit"])

\* DELETE FROM favorite WHERE recipe_id = rid
favorites_without(favs, rid) ==
    [x \in {y \in DOMAIN favs : y.recipe_id # rid} |-> favs[x]]

\* the Favorite rows of the recipe forgotten
delete_rows_keep_favorites(d, rid) ==
    [d EXCEPT
       !.ingredient = {x \in @ : x.recipe_id # rid},
       !.step = {x \in @ : x.recipe_id # rid},
       !.recipetag = {x \in @ : x.recipe_id # rid},
       !.recipe = {x \in @ : x.id # rid}]

\* lines 561-565: the four child deletes and s.delete(r)
delete_rows(d, rid) ==
    [d EXCEPT
       !.ingredient = {x \in @ : x.recipe_id # rid},
       !.step = {x \in @ : x.recipe_id # rid},
       !.recipetag = {x \in @ : x.recipe_id # rid},
       !.favorite = favorites_without(@, rid),
       !.recipe = {x \in @ : x.id # rid}]

\* lines 561-567: the deletes and their one commit
recipe_delete_commit(i) ==
    LET q == inflight[i]
    IN  /\ q.route = "recipe_delete"
        /\ q.pc = "commit"
        /\ db' = delete_rows(db, q.rid)
        /\ deleted' = deleted \cup {q.rid}
        /\ Finish(i)
        /\ Answer(q, "303", NoView)
        /\ UNCHANGED <<session, budget, view_base, views_done>>

(***************************************************************************)
(* POST /recipes/{rid}/favorite and /unfavorite.                           *)
(***************************************************************************)
\* the exists query left out
favorite_exists_never(favs, uid, rid) == FALSE

\* s.exec(select(Favorite).where(user_id, recipe_id)).first()
favorite_exists(favs, uid, rid) == BagIn(Favorite(uid, rid), favs)

\* lines 632-640: the guards and the exists query
favorite_recipe(b, rid, token) ==
    LET q == Req("favorite_recipe", b, token, rid, NoForm, "")
        user == get_current_user(session[b], db)
    IN  /\ Arrive
        /\ HasFreeSlot
        /\ UNCHANGED <<db, session, view_base, views_done, deleted>>
        /\ IF token = 0
           THEN Answer(q, "422", NoView) /\ UNCHANGED inflight
           ELSE IF user = NoId
           THEN Answer(q, "303_login", NoView) /\ UNCHANGED inflight
           ELSE IF ~verify_csrf(session[b], token)
           THEN Answer(q, "400", NoView) /\ UNCHANGED inflight
           ELSE IF favorite_exists(db.favorite, user, rid)
           THEN Answer(q, "303", NoView) /\ UNCHANGED inflight
           ELSE Continue(FreeSlot, [q EXCEPT !.uid = user, !.pc = "insert"])

\* line 641: INSERT INTO favorite; (user_id, recipe_id) is the primary key,
\* so a second row for the pair raises IntegrityError
favorite_insert(i) ==
    LET q == inflight[i]
        row == Favorite(q.uid, q.rid)
    IN  /\ q.route = "favorite_recipe"
        /\ q.pc = "insert"
        /\ Finish(i)
        /\ UNCHANGED <<session, budget, view_base, views_done, deleted>>
        /\ IF BagIn(row, db.favorite)
           THEN Answer(q, "500", NoView) /\ UNCHANGED db
           ELSE /\ db' = [db EXCEPT !.favorite = @ (+) SetToBag({row})]
                /\ Answer(q, "303", NoView)

\* line 654: DELETE FROM favorite WHERE user_id = uid AND recipe_id = rid
unfavorite_rows(favs, uid, rid) ==
    [x \in {y \in DOMAIN favs : ~(y.user_id = uid /\ y.recipe_id = rid)}
        |-> favs[x]]

\* lines 649-656
unfavorite_recipe(b, rid, token) ==
    LET q == Req("unfavorite_recipe", b, token, rid, NoForm, "")
        user == get_current_user(session[b], db)
    IN  /\ Arrive
        /\ UNCHANGED <<session, inflight, view_base, views_done, deleted>>
        /\ IF token = 0
           THEN Answer(q, "422", NoView) /\ UNCHANGED db
           ELSE IF user = NoId
           THEN Answer(q, "303_login", NoView) /\ UNCHANGED db
           ELSE IF ~verify_csrf(session[b], token)
           THEN Answer(q, "400", NoView) /\ UNCHANGED db
           ELSE /\ db' = [db EXCEPT !.favorite =
                            unfavorite_rows(@, user, rid)]
                /\ Answer([q EXCEPT !.uid = user], "303", NoView)

(***************************************************************************)
(* Inputs.                                                                 *)
(***************************************************************************)
MaxLen == 2        \* entries of a submitted ingredient or step list

Form(title, image, names, amounts, bodies, simgs, olds, tags_csv) ==
    [title |-> title, description |-> "d", image |-> image,
     names |-> names, amounts |-> amounts, units |-> <<>>,
     bodies |-> bodies, simgs |-> simgs, olds |-> olds, tags_csv |-> tags_csv]

\* the sequences over S of length at most n
RECURSIVE SeqsUpTo(_, _)
SeqsUpTo(S, n) ==
    IF n = 0 THEN {<<>>}
    ELSE LET shorter == SeqsUpTo(S, n - 1)
         IN  shorter \cup {Append(x, v) : x \in shorter, v \in S}

\* names and bodies as typed: empty, blank, plain, padded
NameVals == {<<>>, <<" ">>, <<"e">>, <<" ", "m">>}
BodyVals == {<<>>, <<"b">>, <<"c", " ">>}

\* tags_csv: "", "q" (a tag with a row), "n" (without), " n,,q"
TagInputs == {<<>>, <<"q">>, <<"n">>, <<" ", "n", ",", ",", "q">>}

\* the token a form sends: none, or any token value
TokenInputs == {0} \cup Tokens

\* the recipe ids a URL may name: those ever issued, and the next one
RidInputs == 1..(db.recipe_seq + 1)

PlainForm ==
    Form("N", "none", <<<<"e">>>>, <<<<"1">>>>, <<<<"b">>>>, <<>>, <<>>, <<"n">>)

\* a step image path the edit form sends back (steps_existing_image)
OldPath == <<"/media/", "h0", ".webp">>

\* create forms: every list of names, every list of bodies with some
\* uploads, every tags_csv, a main image that does not decode
CreateForms ==
    {Form("N", "none", ns, <<<<"1">>>>, <<>>, <<>>, <<>>, <<>>) :
        ns \in SeqsUpTo(NameVals, MaxLen)}
    \cup {Form("N", "image", <<<<"e">>>>, <<>>, bs, imgs, <<>>, tags) :
        bs \in SeqsUpTo(BodyVals, MaxLen),
        imgs \in {<<>>, <<"image">>, <<"none", "junk">>},
        tags \in {<<>>, <<"q">>}}
    \cup {Form("N", "none", <<>>, <<>>, <<<<"b">>>>, <<>>, <<>>, tags) :
        tags \in TagInputs}
    \cup {Form("N", "junk", <<<<"e">>>>, <<>>, <<<<"b">>>>, <<>>, <<>>, <<>>)}

\* edit forms: empty lists, blank entries, kept and replaced step images,
\* an upload that cannot be stored, tags with and without a row
EditForms ==
    {Form("N", "none", <<>>, <<>>, <<>>, <<>>, <<>>, <<>>),
     PlainForm,
     Form("D", "none", <<<<>>, <<" ", "m">>>>, <<<<"1">>>>,
          <<<<>>, <<"b">>>>, <<>>, <<>>, <<"q">>),
     Form("N", "image", <<<<"e">>>>, <<>>, <<<<"b">>, <<>>>>,
          <<"none", "image">>, <<OldPath>>, <<" ", "n", ",", ",", "q">>),
     Form("N", "none", <<<<"e">>>>, <<>>, <<<<"b">>>>, <<"ioerr">>, <<>>, <<>>),
     Form("N", "ioerr", <<<<"e">>>>, <<>>, <<>>, <<>>, <<>>, <<>>)}

(***************************************************************************)
(* The handlers' later steps, common to every specification.               *)
(***************************************************************************)
Serve ==
    \E i \in Slots :
        \/ recipe_create_body(i)
        \/ recipe_detail_commit(i)
        \/ recipe_update_title(i)
        \/ recipe_update_body(i)
        \/ recipe_delete_commit(i)
        \/ favorite_insert(i)

(***************************************************************************)
(* Spec: every route, with any token and any session.                      *)
(***************************************************************************)
Next ==
    \/ \E b \in Browsers, fresh \in Tokens :
        \/ login_form(b, fresh)
        \/ recipe_new(b, fresh)
        \/ favorites_page(b, fresh)
        \/ \E rid \in RidInputs :
            \/ recipe_edit_form(b, rid, fresh)
            \/ recipe_detail(b, rid, fresh)
    \/ \E b \in Browsers, token \in TokenInputs :
        \/ \E email \in Emails, password \in Passwords :
            \/ signup(b, email, password, token)
            \/ login(b, email, password, token)
        \/ logout(b, token)
        \/ \E hex \in Hexes : recipe_create(b, PlainForm, token, hex)
        \/ \E rid \in RidInputs :
            \/ \E hex \in Hexes : recipe_update(b, rid, PlainForm, token, hex)
            \/ recipe_delete(b, rid, token)
            \/ favorite_recipe(b, rid, token)
            \/ unfavorite_recipe(b, rid, token)
    \/ Serve

Spec == Init /\ [][Next]_vars

(***************************************************************************)
(* SpecViews: detail, edit, favorite and unfavorite requests, each sent    *)
(* with the token of its session.                                          *)
(***************************************************************************)
InitViews == InitWith(MaxViewReq)

NextViews ==
    \/ \E b \in Browsers, rid \in RidInputs :
        \/ \E fresh \in Tokens : recipe_detail(b, rid, fresh)
        \/ \E hex \in Hexes :
             recipe_update(b, rid, PlainForm, session[b].csrf_token, hex)
        \/ favorite_recipe(b, rid, session[b].csrf_token)
        \/ unfavorite_recipe(b, rid, session[b].csrf_token)
    \/ \E i \in Slots :
        \/ recipe_detail_commit(i)
        \/ recipe_update_title(i)
        \/ recipe_update_body(i)
        \/ favorite_insert(i)

SpecViews == InitViews /\ [][NextViews]_vars

(***************************************************************************)
(* SpecCreate: create requests over every form of CreateForms.             *)
(***************************************************************************)
NextCreate ==
    \/ \E b \in Browsers, form \in CreateForms, hex \in Hexes :
         recipe_create(b, form, session[b].csrf_token, hex)
    \/ \E i \in Slots : recipe_create_body(i)

SpecCreate == Init /\ [][NextCreate]_vars

(***************************************************************************)
(* SpecEdit: create and edit requests over EditForms.                      *)
(***************************************************************************)
NextEdit ==
    \/ \E b \in Browsers, form \in EditForms, hex \in Hexes :
        \/ recipe_create(b, form, session[b].csrf_token, hex)
        \/ \E rid \in RidInputs :
             recipe_update(b, rid, form, session[b].csrf_token, hex)
    \/ \E i \in Slots :
        \/ recipe_create_body(i)
        \/ recipe_update_title(i)
        \/ recipe_update_body(i)

SpecEdit == Init /\ [][NextEdit]_vars

(***************************************************************************)
(* SpecFrame: edits with every tags_csv, among detail, favorite and        *)
(* unfavorite requests.                                                    *)
(***************************************************************************)
FrameForms ==
    {Form("N", "none", <<<<"e">>>>, <<<<"1">>>>, <<<<"b">>>>, <<>>, <<>>, tags) :
        tags \in TagInputs}
    \cup {Form("D", "image", <<>>, <<>>, <<>>, <<>>, <<>>, <<>>)}

NextFrame ==
    \/ \E b \in Browsers, rid \in RidInputs :
        \/ \E fresh \in Tokens : recipe_detail(b, rid, fresh)
        \/ \E form \in FrameForms, hex \in Hexes :
             recipe_update(b, rid, form, session[b].csrf_token, hex)
        \/ favorite_recipe(b, rid, session[b].csrf_token)
        \/ unfavorite_recipe(b, rid, session[b].csrf_token)
    \/ \E i \in Slots :
        \/ recipe_detail_commit(i)
        \/ recipe_update_title(i)
        \/ recipe_update_body(i)
        \/ favorite_insert(i)

SpecFrame == Init /\ [][NextFrame]_vars

(***************************************************************************)
(* SpecCrop: the crop of the main image (recipe_create lines 322-327,      *)
(* recipe_update lines 487-491, the same statements).  im is the picture   *)
(* after thumbnail, crop the four form fields, all given.                  *)
(***************************************************************************)
MaxDim == 3        \* width and height of the picture

Dims == 1..MaxDim

CropVals == (0 - 2)..(MaxDim + 2)

Min(a, b) == IF a <= b THEN a ELSE b

\* x = max(0, int(cx)); y = max(0, int(cy)); w = max(1, int(cw));
\* h = max(1, int(ch)); w = min(w, im.width - x); h = min(h, im.height - y)
crop_box(im, crop) ==
    LET x == MaxOf(0, crop.x)
        y == MaxOf(0, crop.y)
        w == MaxOf(1, crop.w)
        h == MaxOf(1, crop.h)
    IN  [x |-> x, y |-> y,
         w |-> Min(w, im.width - x), h |-> Min(h, im.height - y)]

NoBox == [x |-> 0, y |-> 0, w |-> 0, h |-> 0]

InitCrop ==
    /\ db = EmptyDb
    /\ session = [b \in Browsers |-> NoSession]
    /\ budget = 0
    /\ inflight = [i \in Slots |-> Idle]
    /\ view_base = <<>>
    /\ views_done = <<>>
    /\ deleted = {}
    /\ \E width \in Dims, height \in Dims, x \in CropVals, y \in CropVals,
          w \in CropVals, h \in CropVals :
         last = [route |-> "recipe_create", pc |-> "opened",
                 im |-> [width |-> width, height |-> height],
                 crop |-> [x |-> x, y |-> y, w |-> w, h |-> h],
                 box |-> NoBox]

\* im = im.crop((x, y, x + w, y + h)): the box handed to crop
main_image_crop ==
    /\ last.pc = "opened"
    /\ last' = [last EXCEPT !.pc = "cropped",
                            !.box = crop_box(last.im, last.crop)]
    /\ UNCHANGED <<db, session, inflight, budget, view_base, views_done,
                   deleted>>

NextCrop == main_image_crop

SpecCrop == InitCrop /\ [][NextCrop]_vars

(***************************************************************************)
(* Properties.                                                             *)
(***************************************************************************)
MutatingRoutes ==
    {"signup", "login", "logout", "recipe_create", "recipe_update",
     "recipe_delete", "favorite_recipe", "unfavorite_recipe"}

\* the token a request sent is missing, or is not the token of its session
BadToken(q) == q.token = 0 \/ q.token # q.stok

\* the answers that refuse a request: invalid token, missing form field,
\* and the redirect to the login page
Refusals == {"400", "422", "303_login"}

\* C1: a request to a state-mutating route (signup, login, logout, recipe
\* create, edit, delete, favorite, unfavorite) whose anti-forgery token is
\* missing or differs from the session's token is refused, and no step of
\* it changes any table or the user id of any session.
C1_BadTokenChangesNothing ==
    [][(last'.route \in MutatingRoutes /\ BadToken(last'))
        => /\ last'.status \in Refusals
           /\ db' = db
           /\ \A b \in Browsers : session'[b].user_id = session[b].user_id]_vars

\* a logged-in owner's edit of their own recipe, sent with a wrong token,
\* was answered 400 while the tables hold rows
C1_Witness ==
    /\ last.route = "recipe_update"
    /\ last.token # 0
    /\ last.token # last.stok
    /\ last.suid # NoId
    /\ last.rid = 1
    /\ last.status = "400"
    /\ db.ingredient # {}

\* the step is the one in which the request of last' was received
Received == budget' = budget - 1

\* the tables hold no row of recipe rid
NoRowsOf(d, rid) ==
    /\ \A x \in d.recipe : x.id # rid
    /\ \A x \in d.ingredient \cup d.step \cup d.recipetag : x.recipe_id # rid
    /\ \A x \in BagToSet(d.favorite) : x.recipe_id # rid

\* table by table, e is d without the rows of recipe rid
SameButFor(d, e, rid) ==
    /\ e.recipe = {x \in d.recipe : x.id # rid}
    /\ e.ingredient = {x \in d.ingredient : x.recipe_id # rid}
    /\ e.step = {x \in d.step : x.recipe_id # rid}
    /\ e.recipetag = {x \in d.recipetag : x.recipe_id # rid}
    /\ BagToSet(e.favorite) = {x \in BagToSet(d.favorite) : x.recipe_id # rid}
    /\ \A x \in BagToSet(e.favorite) :
           CopiesIn(x, e.favorite) = CopiesIn(x, d.favorite)
    /\ e.user = d.user /\ e.tag = d.tag /\ e.recipe_seq = d.recipe_seq

\* C3: a delete answered 303 leaves no Recipe, Ingredient, Step, RecipeTag
\* or Favorite row of the recipe; every step of a delete request either
\* changes no table or removes all rows of the recipe at once; and a detail
\* request received after the delete is answered 404.
C3_DeleteRemovesAllAtOnce ==
    [][/\ (last'.route = "recipe_delete" /\ last'.status = "303")
            => NoRowsOf(db', last'.rid)
       /\ last'.route = "recipe_delete"
            => (db' = db \/ (/\ SameButFor(db, db', last'.rid)
                             /\ NoRowsOf(db', last'.rid)))
       /\ (last'.route = "recipe_detail" /\ Received /\ last'.rid \in deleted)
            => last'.status = "404"]_vars

\* recipe 1 (with rows in all four child tables) was deleted, and a later
\* detail request for it was answered 404
C3_Witness ==
    /\ 1 \in deleted
    /\ last.route = "recipe_detail"
    /\ last.rid = 1
    /\ last.status = "404"
    /\ NoRowsOf(db, 1)

\* C4: an edit or delete request with a valid token from a logged-in user
\* is answered 404 when the recipe does not exist and 403 when its author_id
\* (NULL included) is not the caller's id; either way the request ends there
\* and no table changes.
C4_ForbiddenOrNotFound ==
    [][(/\ last'.route \in {"recipe_update", "recipe_delete"}
        /\ Received
        /\ last'.suid # NoId
        /\ ~BadToken(last')
        /\ \/ GetRecipe(db, last'.rid) = NoRecipe
           \/ GetRecipe(db, last'.rid).author_id # last'.suid)
        => /\ last'.status = (IF GetRecipe(db, last'.rid) = NoRecipe
                              THEN "404" ELSE "403")
           /\ db' = db
           /\ inflight' = inflight]_vars

\* a logged-in user's delete of recipe 2, which has no author, was answered
\* 403 and the recipe and its ingredient are still there
C4_Witness ==
    /\ last.route = "recipe_delete"
    /\ last.rid = 2
    /\ last.suid # NoId
    /\ last.token = last.stok
    /\ last.status = "403"
    /\ GetRecipe(db, 2).author_id = NoId
    /\ \E x \in db.ingredient : x.recipe_id = 2

\* C7: the Favorite table never holds two rows for one (user, recipe) pair;
\* a favorite request (logged in, valid token) for a pair that already has
\* its row is answered 303 and leaves the table as it is; a favorite request
\* answered 303 leaves exactly one row for its pair; an unfavorite answered
\* 303 leaves none; and neither changes a row of another user.
C7_Favorites ==
    [][/\ \A x \in BagToSet(db'.favorite) : CopiesIn(x, db'.favorite) = 1
       /\ (/\ last'.route = "favorite_recipe"
           /\ Received
           /\ last'.suid # NoId
           /\ ~BadToken(last')
           /\ BagIn(Favorite(last'.suid, last'.rid), db.favorite))
            => (last'.status = "303" /\ db'.favorite = db.favorite)
       /\ (last'.route = "favorite_recipe" /\ last'.status = "303")
            => CopiesIn(Favorite(last'.suid, last'.rid), db'.favorite) = 1
       /\ (last'.route = "unfavorite_recipe" /\ last'.status = "303")
            => ~BagIn(Favorite(last'.suid, last'.rid), db'.favorite)
       /\ last'.route \in {"favorite_recipe", "unfavorite_recipe"}
            => \A x \in BagToSet(db.favorite) \cup BagToSet(db'.favorite) :
                   x.user_id # last'.suid
                   => CopiesIn(x, db'.favorite) = CopiesIn(x, db.favorite)]_vars

\* user 2, who had favorited recipe 1 before, favorited it again: answered
\* 303 on the exists query, with the one row still there
C7_Witness ==
    /\ last.route = "favorite_recipe"
    /\ last.suid = 2
    /\ last.rid = 1
    /\ last.pc = "arrive"
    /\ last.status = "303"
    /\ CopiesIn(Favorite(2, 1), db.favorite) = 1

LoginRoutes ==
    {"recipe_new", "recipe_create", "recipe_edit_form", "recipe_update",
     "recipe_delete", "favorite_recipe", "unfavorite_recipe", "favorites_page"}

GetRoutes == {"recipe_new", "recipe_edit_form", "favorites_page"}

\* C8: a request to a route that needs a logged-in user, from a session
\* without a user id (and, on a POST route, with the session's token), is
\* answered by the redirect to the login page and changes no table.
C8_AnonymousRedirected ==
    [][(/\ last'.route \in LoginRoutes
        /\ last'.suid = NoId
        /\ (last'.route \in GetRoutes \/ ~BadToken(last')))
        => (last'.status = "303_login" /\ db' = db)]_vars

\* C5: a recipe that had view_count v and for which N detail requests
\* have been answered, none being still served, has view_count v + N
\* (v is view_base, N is views_done).
C5_ViewCountExact ==
    \A r \in db.recipe :
        (\A i \in Slots : ~(inflight[i].route = "recipe_detail"
                            /\ inflight[i].rid = r.id))
        => r.view_count = view_base[r.id] + views_done[r.id]

\* C6: no step lowers the view_count of a recipe, and none is below 0.
C6_ViewCountMonotonic ==
    [][\A r \in db.recipe : \A n \in db'.recipe :
          n.id = r.id => (n.view_count >= r.view_count /\ n.view_count >= 0)]_vars

(***************************************************************************)
(* C2: recipe create and recipe edit are all-or-nothing.  When a create    *)
(* or edit request fails (is answered 500) after it was accepted, none of  *)
(* its writes are visible: the Recipe row a create inserted is not in the  *)
(* table, and the recipe an edit loaded still has the title and the        *)
(* description it had when the request loaded it.                          *)
(***************************************************************************)
C2_AllOrNothing ==
    [][\A i \in Slots :
          LET q == inflight[i]
              row == GetRecipe(db', q.rid)
          IN  (inflight'[i] = Idle /\ last'.status = "500") =>
                /\ q.route = "recipe_create" => row = NoRecipe
                /\ (q.route = "recipe_update" /\ row # NoRecipe) =>
                      /\ row.title = q.r.title
                      /\ row.description = q.r.description]_vars

(***************************************************************************)
(* C9: a create request that is answered with the new recipe's page shows  *)
(* the ingredients in the order their names were submitted and the steps   *)
(* in the order submitted, blank entries skipped, and the order_no values  *)
(* of each list are strictly increasing and start at 0.                    *)
(***************************************************************************)
RECURSIVE kept_names(_)
kept_names(names) ==
    IF names = <<>> THEN <<>>
    ELSE (IF strip(Head(names)) = <<>> THEN <<>> ELSE <<strip(Head(names))>>)
         \o kept_names(Tail(names))

RECURSIVE kept_bodies(_, _)
kept_bodies(bodies, imgs) ==
    IF bodies = <<>> /\ imgs = <<>> THEN <<>>
    ELSE LET body == IF bodies = <<>> THEN <<>> ELSE strip(Head(bodies))
             img == IF imgs = <<>> THEN "none" ELSE Head(imgs)
             rest == kept_bodies(IF bodies = <<>> THEN <<>> ELSE Tail(bodies),
                                 IF imgs = <<>> THEN <<>> ELSE Tail(imgs))
         IN  (IF body = <<>> /\ img = "none" THEN <<>> ELSE <<body>>) \o rest

FromZeroIncreasing(rows) ==
    /\ rows # <<>> => rows[1].order_no = 0
    /\ \A i, j \in 1..Len(rows) : i < j => rows[i].order_no < rows[j].order_no

C9_OrderKept ==
    (last.route = "recipe_create" /\ last.status = "200") =>
        /\ [i \in 1..Len(last.view.ings) |-> last.view.ings[i].name]
              = kept_names(last.form.names)
        /\ [i \in 1..Len(last.view.steps) |-> last.view.steps[i].body]
              = kept_bodies(last.form.bodies, last.form.simgs)
        /\ FromZeroIncreasing(last.view.ings)
        /\ FromZeroIncreasing(last.view.steps)

\* the order alone: what C9_OrderKept says without the order_no values
C9_OrderOnly ==
    (last.route = "recipe_create" /\ last.status = "200") =>
        /\ [i \in 1..Len(last.view.ings) |-> last.view.ings[i].name]
              = kept_names(last.form.names)
        /\ [i \in 1..Len(last.view.steps) |-> last.view.steps[i].body]
              = kept_bodies(last.form.bodies, last.form.simgs)

(***************************************************************************)
(* C10: the commit with which an edit of recipe R rewrites its rows leaves *)
(* as Ingredient and Step rows of R exactly the rows built from the lists  *)
(* of that request, none from before; with empty lists R has no such rows. *)
(* No other step of the edit touches the Ingredient or the Step table.     *)
(***************************************************************************)
Range(s) == {s[i] : i \in DOMAIN s}

IngredientsOf(d, rid) == {x \in d.ingredient : x.recipe_id = rid}

StepsOf(d, rid) == {x \in d.step : x.recipe_id = rid}

IngredientContent(d, rid) ==
    {[recipe_id |-> x.recipe_id, name |-> x.name, amount |-> x.amount,
      unit |-> x.unit, order_no |-> x.order_no] : x \in IngredientsOf(d, rid)}

StepContent(d, rid) ==
    {[recipe_id |-> x.recipe_id, body |-> x.body, order_no |-> x.order_no,
      image_path |-> x.image_path] : x \in StepsOf(d, rid)}

EmptyLists(form) ==
    /\ form.names = <<>>
    /\ form.bodies = <<>>
    /\ form.simgs = <<>>
    /\ form.olds = <<>>

C10_EditRewritesRows ==
    [][\A i \in Slots :
          LET q == inflight[i]
              ings == update_ingredients(q.form, q.rid)
              steps == update_steps(q.form, q.rid, q.hex)
          IN  (q.route = "recipe_update" /\ inflight'[i] # q) =>
                IF q.pc = "rows" /\ last'.status # "500"
                THEN /\ IngredientContent(db', q.rid) = Range(ings)
                     /\ Cardinality(IngredientsOf(db', q.rid)) = Len(ings)
                     /\ StepContent(db', q.rid) = Range(steps)
                     /\ Cardinality(StepsOf(db', q.rid)) = Len(steps)
                     /\ EmptyLists(q.form) =>
                           /\ IngredientsOf(db', q.rid) = {}
                           /\ StepsOf(db', q.rid) = {}
                     /\ \A rid \in {r.id : r \in db.recipe} \ {q.rid} :
                           /\ IngredientsOf(db', rid) = IngredientsOf(db, rid)
                           /\ StepsOf(db', rid) = StepsOf(db, rid)
                ELSE /\ db'.ingredient = db.ingredient
                     /\ db'.step = db.step]_vars

\* an answered edit of recipe 1 with empty lists, and recipe 1 without rows
C10_Witness ==
    /\ last.route = "recipe_update"
    /\ last.status = "303"
    /\ last.rid = 1
    /\ EmptyLists(last.form)
    /\ IngredientsOf(db, 1) = {}
    /\ StepsOf(db, 1) = {}
    /\ GetRecipe(db, 1) # NoRecipe

(***************************************************************************)
(* C11: every image path stored in Recipe.main_image or Step.image_path    *)
(* has the form /media/<hex>.webp with nothing after the extension, the    *)
(* main image like the step images.                                        *)
(***************************************************************************)
MediaPath(p) == Len(p) = 3 /\ p[1] = "/media/" /\ p[3] = ".webp"

C11_PathForm ==
    /\ \A r \in db.recipe : r.main_image # NoneStr => MediaPath(r.main_image)
    /\ \A x \in db.step : x.image_path # NoneStr => MediaPath(x.image_path)

(***************************************************************************)
(* C14: in every mutating route the anti-forgery token is verified before  *)
(* the user is looked up or the login redirect is issued: a request whose  *)
(* token is missing or is not the token of its session is refused for its  *)
(* token (400, or 422 for the missing field), whoever sent it.             *)
(***************************************************************************)
C14_TokenFirst ==
    [][(last'.route \in MutatingRoutes /\ BadToken(last'))
        => last'.status \in {"400", "422"}]_vars

(***************************************************************************)
(* C16: referential integrity.  In every reachable state every Ingredient, *)
(* Step, RecipeTag and Favorite row refers to a Recipe row of that state.  *)
(***************************************************************************)
C16_ReferentialIntegrity ==
    LET ids == {r.id : r \in db.recipe}
    IN  /\ \A x \in db.ingredient \cup db.step \cup db.recipetag :
              x.recipe_id \in ids
        /\ \A x \in BagToSet(db.favorite) : x.recipe_id \in ids

(***************************************************************************)
(* C12: an upload that does not decode as an image yields no stored path   *)
(* and does not abort the request.  A create request fails (500) only on   *)
(* an upload that cannot be read or written; when it is answered with the  *)
(* new recipe, main_image is empty if the main upload did not decode, and  *)
(* so is image_path of every step whose upload did not decode.             *)
(***************************************************************************)
C12_UndecodableLeavesNoPath ==
    LET form == last.form
        steps == last.view.steps
    IN  /\ (last.route = "recipe_create" /\ last.status = "500") =>
              \/ upload_raises(form.image)
              \/ steps_raise(form)
        /\ (last.route = "recipe_create" /\ last.status = "200") =>
              /\ form.image = "junk" =>
                    GetRecipe(db, last.rid).main_image = NoneStr
              /\ \A i \in 1..Len(steps) :
                    (/\ steps[i].order_no < Len(form.simgs)
                     /\ form.simgs[steps[i].order_no + 1] = "junk")
                    => steps[i].image_path = NoneStr

(***************************************************************************)
(* C13: for every picture of width W >= 1 and height H >= 1 and every      *)
(* integer crop rectangle, negative and oversized values included, the     *)
(* rectangle (x', y', w', h') handed to crop satisfies 0 <= x', 0 <= y',   *)
(* w' >= 1, h' >= 1, x' + w' <= W and y' + h' <= H.                        *)
(***************************************************************************)
C13_CropInside ==
    last.pc = "cropped" =>
        /\ 0 <= last.box.x
        /\ 0 <= last.box.y
        /\ last.box.w >= 1
        /\ last.box.h >= 1
        /\ last.box.x + last.box.w <= last.im.width
        /\ last.box.y + last.box.h <= last.im.height

(***************************************************************************)
(* C15: no step of an edit of recipe R removes a RecipeTag row of R        *)
(* (whatever tags_csv holds, the tags of R after it are a superset of the  *)
(* tags before), changes a Favorite row, changes author_id or view_count   *)
(* of R, or changes an Ingredient, Step or RecipeTag row of another        *)
(* recipe.                                                                 *)
(***************************************************************************)
OthersRows(d, rid) ==
    [ingredient |-> {x \in d.ingredient : x.recipe_id # rid},
     step |-> {x \in d.step : x.recipe_id # rid},
     recipetag |-> {x \in d.recipetag : x.recipe_id # rid},
     recipe |-> {x \in d.recipe : x.id # rid}]

C15_EditFrame ==
    [][last'.route = "recipe_update" =>
          LET rid == last'.rid
              before == GetRecipe(db, rid)
              after == GetRecipe(db', rid)
          IN  /\ {x \in db.recipetag : x.recipe_id = rid} \subseteq db'.recipetag
              /\ db'.favorite = db.favorite
              /\ before # NoRecipe =>
                    /\ after # NoRecipe
                    /\ after.author_id = before.author_id
                    /\ after.view_count = before.view_count
              /\ OthersRows(db', rid) = OthersRows(db, rid)]_vars

\* an edit of recipe 1 that was sent another tag than "q" and a new title was
\* answered after a detail request of recipe 1 had been counted: recipe 1
\* still has its tag "q", its author and the favorite of user 2
C15_Witness ==
    /\ last.route = "recipe_update"
    /\ last.status = "303"
    /\ last.rid = 1
    /\ last.form.tags_csv = <<"n">>
    /\ RecipeTag(1, 1) \in db.recipetag
    /\ \E t \in db.tag : t.name = <<"n">> /\ RecipeTag(1, t.id) \in db.recipetag
    /\ BagIn(Favorite(2, 1), db.favorite)
    /\ GetRecipe(db, 1).author_id = 1
    /\ GetRecipe(db, 1).title = "N"
    /\ GetRecipe(db, 1).view_count = 3

====
